---------------------------- MODULE Spec2Model ----------------------------
(***************************************************************************)
(* Model of tickergadse: the multi-ticker crawler TickerGadse              *)
(* (src/tickergadse/gadse.py), its value types                             *)
(* (src/tickergadse/dataclasses.py) and the world it polls.                *)
(*                                                                         *)
(* One update() call walks the tracked states in order; the cycle of one   *)
(* ticker is the coroutine _update, cut into steps at its awaits: the      *)
(* credential refresh, the thread listing, each posting fetch of the       *)
(* gathered batch, each retry sleep.  Everything after the gather (the     *)
(* classification loop and the commit) has no await and is one step.       *)
(***************************************************************************)
EXTENDS Integers, Sequences, FiniteSets, TLC

(***************************************************************************)
(* Bounds of the model.                                                    *)
(***************************************************************************)
Retries == 2            \* attempt budget the crawler is constructed with
Window == 1             \* window the crawler is constructed with
MaxTime == 2            \* the clock runs from 1 to MaxTime
MaxNewPostings == 1     \* postings that appear while the crawler runs
MaxEdits == 1           \* edits of a thread's title while the crawler runs
MaxPayload == 3         \* longest tuple handed to restore_state
MaxValue == 4           \* largest value of a dict handed to join_dicts
MaxIterations == 2      \* iterations of the main loop whose update() returns
MaxPages == 2           \* pages of postings the site has scripted for a thread

(***************************************************************************)
(* Values.                                                                 *)
(***************************************************************************)
Epoch == 0 - 1          \* dt.datetime(1970, 1, 1): before every clock value

User(id, n) == [user_id |-> id, name |-> n]
UserA == User(1, "A")
UserB == User(2, "B")
UserB2 == User(2, "deleted")  \* UserB under the name shown after a deletion
UserD == User(3, "deleted")   \* another deleted account
Users == {UserA, UserB, UserB2, UserD}
NewAuthors == {UserB}   \* authors of the postings that appear while it runs

TickerIds == <<1, 2>>   \* ticker_ids the crawler of Spec is constructed with
ThreadIds == {1, 2, 3}
ChangingThreads == {2}     \* threads that get postings while the crawler runs
EditedThreads == {1}       \* threads whose title is edited while it runs
TickerOf(tid) == IF tid = 3 THEN 2 ELSE 1
PublishedAt(tid) == IF tid = 1 THEN 0 ELSE 1
Titles == {"t", "u", "v", "w"}

\* The titles a thread has in turn: "t" when published, then one per edit.
Edits(title) ==
    CASE title = "t" -> 0 [] title = "u" -> 1 [] title = "v" -> 2 [] OTHER -> 3
Edited(title) ==
    CASE title = "t" -> "u" [] title = "u" -> "v" [] OTHER -> "w"

\* A Thread value.  The generated __eq__/__hash__ of the frozen dataclass
\* compare every field, which is what equality of these records does.
Thread(tid, title) ==
    [thread_id |-> tid, published |-> PublishedAt(tid),
     ticker_id |-> TickerOf(tid), user |-> UserA, upvotes |-> 0,
     downvotes |-> 0, title |-> title, message |-> "m"]

\* A Posting value, reduced to the fields the crawler reads or that identify it.
Posting(pid, u, tid) == [posting_id |-> pid, user |-> u, thread_id |-> tid]

\* dict[User, int]: a function whose domain is the set of keys.
EmptyDict == [u \in {} |-> 0]
Get(d, k) == IF k \in DOMAIN d THEN d[k] ELSE 0

\* TickerGadse.PersistentState(ticker_id) with the field defaults.
PersistentState(id) ==
    [ticker_id |-> id, retired_postcount |-> EmptyDict,
     active_postcount |-> EmptyDict, retired_threads |-> {},
     last_update |-> Epoch]

(***************************************************************************)
(* Pure functions.                                                         *)
(***************************************************************************)
\* operator.add, the only op the crawler passes to join_dicts.
Add == "operator.add"

\* An operation that keeps its left operand.
Apply_left(op, x, y) == x

\* op(x, y)
Apply(op, x, y) == CASE op = Add -> x + y

\* A merge in which the value of b replaces the value of a on a shared key,
\* as dict.update does.
join_dicts_update(a, b, op) ==
    [k \in DOMAIN a \cup DOMAIN b |-> IF k \in DOMAIN b THEN b[k] ELSE a[k]]

\* utils.join_dicts(a, b, op): union of the keys, op on the shared ones.
join_dicts(a, b, op) ==
    [k \in DOMAIN a \cup DOMAIN b |->
        IF k \in DOMAIN a /\ k \in DOMAIN b THEN Apply(op, a[k], b[k])
        ELSE IF k \in DOMAIN a THEN a[k] ELSE b[k]]

\* The loop of _posting_stats: result[p.user] = result.get(p.user, 0) + 1.
RECURSIVE posting_stats_loop(_, _)
posting_stats_loop(result, postings) ==
    IF postings = <<>> THEN result
    ELSE LET u == Head(postings).user
             r == [k \in DOMAIN result \cup {u} |->
                     IF k = u THEN Get(result, u) + 1 ELSE result[k]]
         IN posting_stats_loop(r, Tail(postings))

\* Stats keyed by the display name: a posting is counted under the first
\* author of the list who has the name of its author.
posting_stats_by_name(postings) ==
    posting_stats_loop(EmptyDict,
        [i \in 1..Len(postings) |->
            [postings[i] EXCEPT !.user =
                postings[CHOOSE j \in 1..Len(postings) :
                            /\ postings[j].user.name = postings[i].user.name
                            /\ \A h \in 1..(j - 1) :
                                  postings[h].user.name # postings[i].user.name
                        ].user]])

\* _posting_stats(postings)
posting_stats(postings) == posting_stats_loop(EmptyDict, postings)

\* set(threads) - state.retired_threads
update_set(threads, retired_threads) == threads \ retired_threads

\* list(...).sort(key=lambda t: t.published): the orders sort can leave
\* the set in (threads of equal publication time in any order).
SortedByPublished(S) ==
    {s \in [1..Cardinality(S) -> S] :
        /\ \A i, j \in 1..Cardinality(S) : i # j => s[i] # s[j]
        /\ \A i, j \in 1..Cardinality(S) : i < j => s[i].published <= s[j].published}

\* The comparison with the cutoff included.
outside_window_le(t, now) == t.published <= now - Window

\* t.published < now - self._window
outside_window(t, now) == t.published < now - Window

\* A retirement that records the thread and drops its counts.
retire_uncounted(state, t, stats) ==
    [state EXCEPT !.retired_threads = @ \cup {t}]

\* The retired set replaced instead of extended.
retire_replace(state, t, stats) ==
    [state EXCEPT !.retired_threads = {t},
                  !.retired_postcount = join_dicts(@, stats, Add)]

\* The branch of the classification loop for a thread outside the window.
retire(state, t, stats) ==
    [state EXCEPT !.retired_threads = @ \cup {t},
                  !.retired_postcount = join_dicts(@, stats, Add)]

\* The fold onto the retired accumulator, as in __main__.py.
fold_active_leak(active_threads, state, stats) ==
    join_dicts(state.retired_postcount, stats, Add)

\* The branch for a thread still inside the window.
fold_active(active_threads, state, stats) ==
    join_dicts(active_threads, stats, Add)

\* for t, p in zip(update_threads, postings): ... from position i on.
\* The value is the pair of the state and the active_threads accumulator.
RECURSIVE classify(_, _, _, _, _, _)
classify(state, active_threads, upd, postings, i, now) ==
    IF i > Len(upd) \/ i > Len(postings)
    THEN [state |-> state, active_threads |-> active_threads]
    ELSE LET stats == posting_stats(postings[i])
         IN IF outside_window(upd[i], now)
            THEN classify(retire(state, upd[i], stats), active_threads,
                          upd, postings, i + 1, now)
            ELSE classify(state, fold_active(active_threads, state, stats),
                          upd, postings, i + 1, now)

\* A commit that pairs the threads with the posting lists in another order
\* than the one of the requests.
commit_unpaired(state, upd, postings, now, utcnow) ==
    LET r == classify(state, EmptyDict, upd,
                      [i \in 1..Len(postings) |->
                          postings[Len(postings) + 1 - i]], 1, now)
    IN [r.state EXCEPT !.active_postcount = r.active_threads,
                       !.last_update = utcnow]

\* A commit that adds the counts of the active threads to active_postcount
\* instead of replacing it.
commit_accumulate(state, upd, postings, now, utcnow) ==
    LET r == classify(state, EmptyDict, upd, postings, 1, now)
    IN [r.state EXCEPT !.active_postcount =
                          join_dicts(state.active_postcount,
                                     r.active_threads, Add),
                       !.last_update = utcnow]

\* The tail of _update from "now = ..." on: classification, then the commit
\* of active_postcount and last_update (utcnow, a second clock reading).
commit(state, upd, postings, now, utcnow) ==
    LET r == classify(state, EmptyDict, upd, postings, 1, now)
    IN [r.state EXCEPT !.active_postcount = r.active_threads,
                       !.last_update = utcnow]

\* States that share one retired_threads set, as dataclass fields with a
\* mutable default value would: what the cycle adds shows in every state.
commit_states_shared(sts, i, upd, postings, now, utcnow) ==
    LET new == commit(sts[i], upd, postings, now, utcnow)
    IN [k \in DOMAIN sts |->
           IF k = i THEN new
           ELSE [sts[k] EXCEPT !.retired_threads = new.retired_threads]]

\* self._states after _update(state) has returned for the state at position
\* i: the cycle writes to the PersistentState object it was given.
commit_states(sts, i, upd, postings, now, utcnow) ==
    [sts EXCEPT ![i] = commit(@, upd, postings, now, utcnow)]

\* TickerGadse.ranking over a tuple of states, from position i on.
RECURSIVE ranking_loop(_, _, _)
ranking_loop(ranking, sts, i) ==
    IF i > Len(sts) THEN ranking
    ELSE ranking_loop(
            join_dicts(join_dicts(ranking, sts[i].retired_postcount, Add),
                       sts[i].active_postcount, Add),
            sts, i + 1)

\* TickerGadse.last_update: max(s.last_update for s in self._states), which
\* keeps the first of the values seen so far unless a later one is greater.
RECURSIVE max_loop(_, _, _)
max_loop(best, sts, i) ==
    IF i > Len(sts) THEN best
    ELSE max_loop(IF sts[i].last_update > best THEN sts[i].last_update
                  ELSE best,
                  sts, i + 1)

\* The last_update of the first state only.
last_update_of_first(sts) == sts[1].last_update

last_update_of(sts) == max_loop(sts[1].last_update, sts, 2)

\* A ranking that is taken from the last state only.
ranking_of_last(sts) == ranking_loop(EmptyDict, sts, Len(sts))

\* TickerGadse.ranking: the fold over all states, from an empty dict.
ranking_of(sts) == ranking_loop(EmptyDict, sts, 1)

(***************************************************************************)
(* State.                                                                  *)
(***************************************************************************)
VARIABLES
    states,          \* self._states: the tuple of PersistentState
    pc,              \* where update() stands: "idle", "cookies", "listing",
                     \*   "sleep" (retry sleep of the listing phase), "gather"
    idx,             \* position in self._states of the state being updated
    attempt,         \* attempt of the listing phase that is running
    cookies,         \* how update_cookies ended in that attempt: "none" (it
                     \*   has not ended, or no attempt runs), "ok", "raised"
    update_threads,  \* the sorted candidate list of the running cycle
    tasks,           \* the gathered _get_postings calls, by position: st is
                     \*   "run", "sleep", "done" or "failed", att the attempt
                     \*   that runs (0 once the call has returned), res the
                     \*   postings returned
    session,         \* the ClientSession of the cycle: "none", "open", "closed"
    clock,           \* the wall clock
    world_title,     \* title the site shows for each thread
    world_postings,  \* postings the site holds for each thread
    added,           \* postings added to the site so far
    pre,             \* history: states[idx] when the cycle that runs, or that
                     \*   has failed, started
    result,          \* history: how the cycle that ended last ended: "none",
                     \*   "ok", "listing_failed", "posting_failed"
    retired_fetch,   \* history: for every retired Thread value, the postings
                     \*   fetched for it in the cycle that retired it
    active_fetch,    \* history: for every Thread value that the last successful
                     \*   cycle of its ticker left active, the postings that
                     \*   cycle fetched for it
    ticker_ids,      \* history: the ticker_ids passed to the constructor
    payload,         \* what pickle.load returned in restore_state, if called
    restored,        \* how restore_state ended: "none", "ok", "TypeError",
                     \*   "ValueError", and in main "FileNotFoundError"
    updated,         \* history: positions whose cycle has succeeded in the
                     \*   update() call that runs or that ended last
    file,            \* the state file: <<>>, or <<b>> for the written bytes b
    args,            \* arguments of a call of a pure function
    out,             \* what the call returned
    main_pc,         \* where main() of crawler_cli stands: "off" (main does
                     \*   not run), "start", "init", "wait", "update",
                     \*   "sleep", "commit", "push", "next", "returned_0",
                     \*   "returned_1"
    cli_args,        \* what parse_args returned
    next_update,     \* the scheduled time of the main loop
    first_update,    \* history: the scheduled time the loop started with
    iterations,      \* history: the iterations of the main loop whose update()
                     \*   has returned
    saves,           \* history: how often main has written the state file
    repo             \* the cloned repository: the committed ranking.json,
                     \*   the commits made and the commits pushed

vars == <<states, pc, idx, attempt, cookies, update_threads, tasks, session, clock,
          world_title, world_postings, added, pre, result,
          retired_fetch, active_fetch, ticker_ids, payload, restored, updated, file, args,
          out, main_pc, cli_args, next_update, first_update, iterations, saves,
          repo>>

crawler == <<states, pc, idx, attempt, cookies, update_threads, tasks, session, pre,
             result, retired_fetch, active_fetch, updated>>
restore == <<ticker_ids, payload, restored, file>>
call == <<args, out>>
main == <<main_pc, cli_args, next_update, first_update, iterations, saves,
         repo>>
world == <<world_title, world_postings, added>>

\* Postings of a thread as a list: n by UserA, then m by UserB.
RECURSIVE Posts(_, _, _)
Posts(tid, na, nb) ==
    IF nb > 0 THEN Append(Posts(tid, na, nb - 1), Posting(na + nb, UserB, tid))
    ELSE IF na > 0 THEN Append(Posts(tid, na - 1, 0), Posting(na, UserA, tid))
    ELSE <<>>

\* The contents the site can have when the crawler is started.
InitWorlds ==
    { [tid \in ThreadIds |->
          CASE tid = 1 -> Posts(1, 3, 0) [] tid = 2 -> Posts(2, 2, 1)
            [] OTHER -> <<Posting(1, UserB2, 3), Posting(2, UserD, 3)>>] }

\* TickerGadse(ticker_ids, window): nothing restored, nothing updated yet.
Constructed(ids) ==
    /\ ticker_ids = ids
    /\ states = [i \in 1..Len(ids) |-> PersistentState(ids[i])]
    /\ payload = <<>>
    /\ restored = "none"
    /\ updated = {}
    /\ out = <<>>
    /\ retired_fetch = EmptyDict
    /\ active_fetch = EmptyDict
    /\ pc = "idle"
    /\ idx = 0
    /\ attempt = 0
    /\ cookies = "none"
    /\ update_threads = <<>>
    /\ tasks = <<>>
    /\ session = "none"
    /\ clock = 1
    /\ world_title = [tid \in ThreadIds |-> "t"]
    /\ world_postings \in InitWorlds
    /\ added = 0
    /\ pre = PersistentState(0)
    /\ result = "none"

\* No repository has been cloned and nothing has been committed.
NoRepo == [head |-> <<>>, commits |-> 0, pushed |-> 0]

\* main() of crawler_cli does not run: the crawler is driven directly.
NoMain ==
    /\ main_pc = "off"
    /\ cli_args = <<>>
    /\ next_update = 0
    /\ first_update = 0
    /\ iterations = 0
    /\ saves = 0
    /\ repo = NoRepo
    /\ file = <<>>

Init == Constructed(TickerIds) /\ args = <<>> /\ NoMain

(***************************************************************************)
(* The world.                                                              *)
(***************************************************************************)
Tick ==
    /\ clock < MaxTime
    /\ clock' = clock + 1
    /\ UNCHANGED <<crawler, world>>
    /\ UNCHANGED <<restore, call, main>>

\* A posting is appended to a thread that is already published.
AddPosting ==
    /\ added < MaxNewPostings
    /\ \E tid \in ChangingThreads, u \in NewAuthors :
          /\ PublishedAt(tid) <= clock
          /\ world_postings' = [world_postings EXCEPT ![tid] =
                Append(@, Posting(Len(@) + 1, u, tid))]
    /\ added' = added + 1
    /\ UNCHANGED <<crawler, clock, world_title>>
    /\ UNCHANGED <<restore, call, main>>

\* The title of a published thread is edited.
EditThread ==
    /\ \E tid \in EditedThreads :
          /\ PublishedAt(tid) <= clock
          /\ Edits(world_title[tid]) < MaxEdits
          /\ Edits(world_title[tid]) < 3
          /\ world_title' = [world_title EXCEPT ![tid] = Edited(@)]
    /\ UNCHANGED <<crawler, clock, world_postings, added>>
    /\ UNCHANGED <<restore, call, main>>

\* What get_ticker_threads(ticker_id) returns when it succeeds now.
Listing(ticker_id) ==
    {Thread(tid, world_title[tid]) :
        tid \in {x \in ThreadIds : TickerOf(x) = ticker_id /\ PublishedAt(x) <= clock}}

(***************************************************************************)
(* update() and _update(state).                                            *)
(***************************************************************************)
\* update() that walks the states from the last one.
update_from_last ==
    /\ pc = "idle"
    /\ Len(states) > 0
    /\ idx' = Len(states)
    /\ attempt' = 1
    /\ pc' = "cookies"
    /\ pre' = states[Len(states)]
    /\ update_threads' = <<>>
    /\ tasks' = <<>>
    /\ updated' = {}
    /\ UNCHANGED <<states, session, result, clock, world>>
    /\ UNCHANGED <<cookies, retired_fetch, active_fetch, restore, call, main>>

\* update() with a cycle that empties active_postcount when it starts instead
\* of assigning it when it ends.
update_reset ==
    /\ pc = "idle"
    /\ Len(states) > 0
    /\ idx' = 1
    /\ attempt' = 1
    /\ pc' = "cookies"
    /\ pre' = states[1]
    /\ states' = [states EXCEPT ![1].active_postcount = EmptyDict]
    /\ update_threads' = <<>>
    /\ tasks' = <<>>
    /\ updated' = {}
    /\ UNCHANGED <<session, result, clock, world>>
    /\ UNCHANGED <<cookies, retired_fetch, active_fetch, restore, call, main>>

\* update() is called: the cycle of the first state starts.  The requests
\* of a batch that has failed are not followed any further.
update ==
    /\ pc = "idle"
    /\ Len(states) > 0
    /\ idx' = 1
    /\ attempt' = 1
    /\ pc' = "cookies"
    /\ pre' = states[1]
    /\ update_threads' = <<>>
    /\ tasks' = <<>>
    /\ updated' = {}
    /\ UNCHANGED <<states, session, result, clock, world>>
    /\ UNCHANGED <<cookies, retired_fetch, active_fetch, restore, call, main>>

\* await self._api.update_cookies() returns.
update_cookies_ok ==
    /\ pc = "cookies"
    /\ pc' = "listing"
    /\ UNCHANGED <<states, idx, attempt, update_threads, tasks, session, pre,
                   result, clock, world>>
    /\ cookies' = "ok"
    /\ UNCHANGED <<retired_fetch, active_fetch, updated, restore, call, main>>

\* An exception of update_cookies that is swallowed: the attempt goes on to
\* get_ticker_threads.
update_cookies_ignored ==
    /\ pc = "cookies"
    /\ pc' = "listing"
    /\ UNCHANGED <<states, idx, attempt, update_threads, tasks, session, pre,
                   result, clock, world>>
    /\ cookies' = "raised"
    /\ UNCHANGED <<retired_fetch, active_fetch, updated, restore, call, main>>

\* await self._api.update_cookies() raises: the attempt has failed.
update_cookies_fail ==
    /\ pc = "cookies"
    /\ pc' = "sleep"
    /\ UNCHANGED <<states, idx, attempt, update_threads, tasks, session, pre,
                   result, clock, world>>
    /\ cookies' = "raised"
    /\ UNCHANGED <<retired_fetch, active_fetch, updated, restore, call, main>>

\* get_ticker_threads returns: selection, session and the gathered requests,
\* each of which issues its first request.
get_ticker_threads_ok ==
    /\ pc = "listing"
    /\ \E upd \in SortedByPublished(
                    update_set(Listing(states[idx].ticker_id),
                               states[idx].retired_threads)) :
          /\ update_threads' = upd
          /\ tasks' = [i \in 1..Len(upd) |->
                          [st |-> "run", att |-> 1, res |-> <<>>]]
    /\ session' = "open"
    /\ pc' = "gather"
    /\ UNCHANGED <<states, idx, attempt, pre, result, clock, world>>
    /\ cookies' = "none"
    /\ UNCHANGED <<retired_fetch, active_fetch, updated, restore, call, main>>

\* get_ticker_threads raises: the attempt has failed.
get_ticker_threads_fail ==
    /\ pc = "listing"
    /\ pc' = "sleep"
    /\ UNCHANGED <<states, idx, attempt, update_threads, tasks, session, pre,
                   result, clock, world>>
    /\ UNCHANGED <<cookies, retired_fetch, active_fetch, updated, restore, call, main>>

\* The time of the failure recorded as the last update.
listing_failed_stamp(state, now) == [state EXCEPT !.last_update = now]

\* What the else branch of the listing loop does to the state before it
\* raises UpdateError: nothing.
listing_failed(state, now) == state

\* asyncio.sleep(delay) of the listing phase returns: the next attempt, or
\* the else branch of the for loop raises UpdateError out of update().
listing_retry ==
    /\ pc = "sleep"
    /\ IF attempt < Retries
       THEN /\ attempt' = attempt + 1
            /\ pc' = "cookies"
            /\ UNCHANGED <<states, result>>
       ELSE /\ pc' = "idle"
            /\ states' = [states EXCEPT ![idx] = listing_failed(@, clock)]
            /\ result' = "listing_failed"
            /\ UNCHANGED attempt
    /\ UNCHANGED <<idx, update_threads, tasks, session, pre, clock, world>>
    /\ cookies' = "none"
    /\ UNCHANGED <<retired_fetch, active_fetch, updated, restore, call, main>>

\* The counts of a fetched thread folded in as soon as its fetch completes.
fetched_eager(state, postings) ==
    [state EXCEPT !.active_postcount =
                     join_dicts(@, posting_stats(postings), Add)]

\* What a completed posting fetch does to the state of the ticker: nothing,
\* the postings are only returned to the gather.
fetched(state, postings) == state

\* get_thread_postings of request i returns the postings the thread has now.
get_postings_ok(i) ==
    /\ pc = "gather"
    /\ tasks[i].st = "run"
    /\ LET p == world_postings[update_threads[i].thread_id]
       IN /\ tasks' = [tasks EXCEPT ![i] = [@ EXCEPT !.st = "done", !.att = 0, !.res = p]]
          /\ states' = [states EXCEPT ![idx] = fetched(@, p)]
    /\ UNCHANGED <<pc, idx, attempt, update_threads, session, pre,
                   result, clock, world>>
    /\ UNCHANGED <<cookies, retired_fetch, active_fetch, updated, restore, call, main>>

\* get_thread_postings of request i raises: the request sleeps.
get_postings_fail(i) ==
    /\ pc = "gather"
    /\ tasks[i].st = "run"
    /\ tasks' = [tasks EXCEPT ![i] = [@ EXCEPT !.st = "sleep"]]
    /\ UNCHANGED <<states, pc, idx, attempt, update_threads, session, pre,
                   result, clock, world>>
    /\ UNCHANGED <<cookies, retired_fetch, active_fetch, updated, restore, call, main>>

\* One attempt budget for the whole batch: a request gives up when the
\* attempts of all requests together have reached the budget.
get_postings_retry_shared(i) ==
    /\ pc = "gather"
    /\ tasks[i].st = "sleep"
    /\ IF tasks[i].att < Retries
          /\ tasks[1].att + tasks[Len(tasks)].att < Retries
       THEN tasks' = [tasks EXCEPT ![i] =
                         [@ EXCEPT !.st = "run", !.att = @ + 1]]
       ELSE tasks' = [tasks EXCEPT ![i] = [@ EXCEPT !.st = "failed"]]
    /\ UNCHANGED <<states, pc, idx, attempt, update_threads, session, pre,
                   result, clock, world>>
    /\ UNCHANGED <<cookies, retired_fetch, active_fetch, updated, restore, call, main>>

\* The sleep of request i returns: the next attempt, or UpdateError.
get_postings_retry(i) ==
    /\ pc = "gather"
    /\ tasks[i].st = "sleep"
    /\ IF tasks[i].att < Retries
       THEN tasks' = [tasks EXCEPT ![i] =
                         [@ EXCEPT !.st = "run", !.att = @ + 1]]
       ELSE tasks' = [tasks EXCEPT ![i] = [@ EXCEPT !.st = "failed"]]
    /\ UNCHANGED <<states, pc, idx, attempt, update_threads, session, pre,
                   result, clock, world>>
    /\ UNCHANGED <<cookies, retired_fetch, active_fetch, updated, restore, call, main>>

\* A session that is closed by a call after the gather, which an exception of
\* the gather skips.
close_after_gather(s, raised) == IF raised THEN s ELSE "closed"

\* The session when the block of `async with session:` is left, by the return
\* of the gather or by the exception it raised.
async_with_exit(s, raised) == "closed"

\* What the failure of the gather does to the state: nothing.
posting_failed(state, upd, postings, now) == state

\* The gather raises the UpdateError of a request: the session is left and
\* the error leaves _update and update().
gather_raise ==
    /\ pc = "gather"
    /\ \E i \in 1..Len(tasks) : tasks[i].st = "failed"
    /\ session' = async_with_exit(session, TRUE)
    /\ pc' = "idle"
    /\ states' = [states EXCEPT ![idx] =
          posting_failed(@, update_threads,
                         [i \in 1..Len(tasks) |-> tasks[i].res], clock)]
    /\ result' = "posting_failed"
    /\ UNCHANGED <<idx, attempt, update_threads, tasks, pre, clock, world>>
    /\ UNCHANGED <<cookies, retired_fetch, active_fetch, updated, restore, call, main>>

\* The gather returns: the session is left, the batch is classified and
\* committed, and update() goes on to the next state, if any.
gather_return ==
    /\ pc = "gather"
    /\ \A i \in 1..Len(tasks) : tasks[i].st = "done"
    /\ session' = async_with_exit(session, FALSE)
    /\ \E utcnow \in {t \in {clock, clock + 1} : t <= MaxTime} :
          /\ states' = commit_states(states, idx, update_threads,
                [i \in 1..Len(tasks) |-> tasks[i].res], clock, utcnow)
          /\ clock' = utcnow
    /\ retired_fetch' =
          [t \in DOMAIN retired_fetch \cup
                  {update_threads[i] : i \in {j \in 1..Len(update_threads) :
                        update_threads[j] \in states'[idx].retired_threads}} |->
              IF t \in DOMAIN retired_fetch THEN retired_fetch[t]
              ELSE tasks[CHOOSE i \in 1..Len(update_threads) :
                            update_threads[i] = t].res]
    /\ active_fetch' =
          [t \in {x \in DOMAIN active_fetch :
                    x.ticker_id # states[idx].ticker_id} \cup
                  {update_threads[i] : i \in {j \in 1..Len(update_threads) :
                        update_threads[j] \notin states'[idx].retired_threads}} |->
              IF t.ticker_id # states[idx].ticker_id THEN active_fetch[t]
              ELSE tasks[CHOOSE i \in 1..Len(update_threads) :
                            update_threads[i] = t].res]
    /\ result' = "ok"
    /\ updated' = updated \cup {idx}
    /\ IF idx < Len(states)
       THEN /\ idx' = idx + 1
            /\ attempt' = 1
            /\ pc' = "cookies"
            /\ pre' = states'[idx + 1]
       ELSE /\ pc' = "idle"
            /\ pre' = states'[idx]
            /\ UNCHANGED <<idx, attempt>>
    /\ update_threads' = <<>>
    /\ tasks' = <<>>
    /\ UNCHANGED world
    /\ UNCHANGED <<cookies, restore, call, main>>

Next ==
    \/ Tick
    \/ AddPosting
    \/ EditThread
    \/ update
    \/ update_cookies_ok
    \/ update_cookies_fail
    \/ get_ticker_threads_ok
    \/ get_ticker_threads_fail
    \/ listing_retry
    \/ \E i \in 1..Len(tasks) : get_postings_ok(i)
    \/ \E i \in 1..Len(tasks) : get_postings_fail(i)
    \/ \E i \in 1..Len(tasks) : get_postings_retry(i)
    \/ gather_raise
    \/ gather_return

\* A crawler constructed for TickerIds that runs update() again and again.
Spec == Init /\ [][Next]_vars

(***************************************************************************)
(* restore_state.                                                          *)
(***************************************************************************)
\* isinstance(s, TickerGadse.PersistentState)
IsPersistentState(s) == DOMAIN s = DOMAIN PersistentState(0)

\* A saved state of a ticker that has been updated, and an object of
\* another type.
SavedState(id) ==
    [PersistentState(id) EXCEPT !.last_update = 1,
                                !.retired_postcount = [u \in {UserA} |-> id]]
Other == [other |-> TRUE]

\* The tuples pickle.load can return.
Payloads ==
    UNION {[1..n -> {SavedState(1), SavedState(2), SavedState(3), Other}] :
              n \in 0..MaxPayload}

\* The ticker_ids a crawler that restores is constructed with.
Constructions == {<<1, 2>>, <<1, 2, 3>>}

\* The checks of restore_state on the loaded tuple: the error it raises, or "ok".
restore_check(current, loaded) ==
    IF ~ \A i \in 1..Len(loaded) : IsPersistentState(loaded[i])
    THEN "TypeError"
    ELSE IF {loaded[i].ticker_id : i \in 1..Len(loaded)}
              # {current[i].ticker_id : i \in 1..Len(current)}
    THEN "ValueError"
    ELSE "ok"

\* restore_state with the assignment placed before the check of the ticker IDs
\* only: a loaded tuple that fails the type check is installed.
restore_states_unchecked(current, loaded) ==
    IF restore_check(current, loaded) = "ValueError" THEN current ELSE loaded

\* restore_state that assigns nothing.
restore_states_keep(current, loaded) == current

\* self._states after restore_state(fp) has returned or raised.
restore_states(current, loaded) ==
    IF restore_check(current, loaded) = "ok" THEN loaded ELSE current

\* restore_state(fp) is called on a newly constructed crawler.
restore_state ==
    /\ pc = "idle"
    /\ restored = "none"
    /\ result = "none"
    /\ \E loaded \in Payloads :
          /\ payload' = loaded
          /\ restored' = restore_check(states, loaded)
          /\ states' = restore_states(states, loaded)
    /\ UNCHANGED <<pc, idx, attempt, update_threads, tasks, session, pre,
                   result, cookies, retired_fetch, active_fetch, updated,
                   clock, world,
                   ticker_ids, file, call, main>>

\* dict.items() as pickle writes them, and the dict pickle builds from them.
items(d) == {<<k, d[k]>> : k \in DOMAIN d}
dict(its) == [k \in {it[1] : it \in its} |-> (CHOOSE it \in its : it[1] = k)[2]]

\* pickle.dump(self._states, fp): the tuple is written object by object, a
\* PersistentState as its class name and the values of its fields.
pickle_dump(sts) ==
    [i \in 1..Len(sts) |->
        <<"PersistentState", sts[i].ticker_id, items(sts[i].retired_postcount),
          items(sts[i].active_postcount), sts[i].retired_threads,
          sts[i].last_update>>]

\* pickle.load(fp) of what pickle_dump wrote.
pickle_load(bytes) ==
    [i \in 1..Len(bytes) |->
        [ticker_id         |-> bytes[i][2],
         retired_postcount |-> dict(bytes[i][3]),
         active_postcount  |-> dict(bytes[i][4]),
         retired_threads   |-> bytes[i][5],
         last_update       |-> bytes[i][6]]]

\* The ticker_ids of the crawler that is constructed to restore a saved state.
Reconstructions == {<<1, 2>>, <<2, 1>>}

\* save_state(fp) between two update() calls; the run ends after it.
save_state ==
    /\ pc = "idle"
    /\ restored = "none"
    /\ file = <<>>
    /\ file' = <<pickle_dump(states)>>
    /\ pc' = "stopped"
    /\ UNCHANGED <<states, idx, attempt, update_threads, tasks, session, pre,
                   result, cookies, retired_fetch, active_fetch, updated,
                   clock, world,
                   ticker_ids, payload, restored, call, main>>

\* A crawler is constructed for the same ticker IDs and restore_state(fp) is
\* called on it with the file of the run before.
restore_saved ==
    /\ pc = "stopped"
    /\ file # <<>>
    /\ \E ids \in Reconstructions :
          LET current == [i \in 1..Len(ids) |-> PersistentState(ids[i])]
              loaded == pickle_load(file[1])
          IN  /\ ticker_ids' = ids
              /\ payload' = loaded
              /\ restored' = restore_check(current, loaded)
              /\ states' = restore_states(current, loaded)
    /\ pc' = "restored"
    /\ UNCHANGED <<idx, attempt, update_threads, tasks, session, pre,
                   result, cookies, retired_fetch, active_fetch, updated,
                   clock, world, file, call, main>>

NextSave ==
    \/ Next
    \/ save_state
    \/ restore_saved

\* Update cycles, a save of the state, and a restore of it by a new crawler.
SpecSave == Init /\ [][NextSave]_vars

InitRestore ==
    (\E ids \in Constructions : Constructed(ids)) /\ args = <<>> /\ NoMain

NextRestore == restore_state

\* A crawler constructed for some ticker_ids on which restore_state is called.
SpecRestore == InitRestore /\ [][NextRestore]_vars

(***************************************************************************)
(* Properties.                                                             *)
(***************************************************************************)
(***************************************************************************)
(* join_dicts on its own.                                                  *)
(***************************************************************************)
\* The dicts with keys from K and values from 1..MaxValue.
Dicts(K) == UNION {[S -> 1..MaxValue] : S \in SUBSET K}

\* The argument tuples of the calls: two dicts for one merge, three dicts
\* for the merges of a fold.
JoinArgs ==
    (Dicts({"a", "b", "c"}) \X Dicts({"a", "b", "c"}))
        \cup (Dicts({"a", "b"}) \X Dicts({"a", "b"}) \X Dicts({"a", "b"}))

\* join_dicts(a, b, op=operator.add) is called: what it returns, and a and b
\* as they are after the call.
join_dicts_call ==
    /\ Len(args) = 2
    /\ out = <<>>
    /\ out' = <<join_dicts(args[1], args[2], Add)>>
    /\ args' = args
    /\ UNCHANGED <<crawler, restore, clock, world, main>>

\* The fold of the ranking over the dicts in the order given by p.
fold_in_order(ds, p) ==
    join_dicts(join_dicts(join_dicts(EmptyDict, ds[p[1]], Add),
                          ds[p[2]], Add),
               ds[p[3]], Add)

\* The orders in which three dicts can be folded.
Orders == {p \in [1..3 -> 1..3] : {p[1], p[2], p[3]} = 1..3}

\* Three dicts are merged: grouped to the left and to the right, the first
\* two in both orders, and folded as the ranking does in every order.
join_dicts_fold ==
    /\ Len(args) = 3
    /\ out = <<>>
    /\ out' = <<join_dicts(join_dicts(args[1], args[2], Add), args[3], Add),
                join_dicts(args[1], join_dicts(args[2], args[3], Add), Add),
                join_dicts(args[1], args[2], Add),
                join_dicts(args[2], args[1], Add),
                {fold_in_order(args, p) : p \in Orders}>>
    /\ args' = args
    /\ UNCHANGED <<crawler, restore, clock, world, main>>

InitJoin == Constructed(TickerIds) /\ args \in JoinArgs /\ NoMain

NextJoin ==
    \/ join_dicts_call
    \/ join_dicts_fold

\* Calls of join_dicts with operator.add on dicts drawn from JoinArgs.
SpecJoin == InitJoin /\ [][NextJoin]_vars

(***************************************************************************)
(* main() of crawler_cli: the loop that schedules update(), saves the      *)
(* state and publishes the ranking.  main passes ticker_id=TICKER_ID to    *)
(* the constructor, whose parameter is ticker_ids: the crawler is the one  *)
(* constructed for the single ticker TICKER_ID.                            *)
(***************************************************************************)
TICKER_ID == 1

\* args as parse_args returns them: the options that main reads.
CommandLine(once, continue_flag, state_file, git_repo, git_no_push, interval) ==
    [once |-> once, continue_flag |-> continue_flag,
     state_file |-> state_file, git_repo |-> git_repo,
     git_no_push |-> git_no_push, interval |-> interval]

\* The command lines main is started with.
Invocations ==
    {CommandLine(TRUE, FALSE, TRUE, TRUE, FALSE, 1),
     CommandLine(TRUE, TRUE, TRUE, FALSE, FALSE, 2),
     CommandLine(FALSE, TRUE, TRUE, TRUE, TRUE, 2),
     CommandLine(FALSE, FALSE, FALSE, FALSE, FALSE, 1),
     CommandLine(FALSE, TRUE, FALSE, FALSE, FALSE, 1)}

\* What the state file can hold when main starts with --continue: no file,
\* the state of the tracked ticker, the state of another ticker, the states
\* of the tracked and of another ticker, and a tuple with an object of
\* another type.
StateFiles ==
    {<<>>,
     <<pickle_dump(<<SavedState(TICKER_ID)>>)>>,
     <<pickle_dump(<<SavedState(2)>>)>>,
     <<pickle_dump(<<SavedState(TICKER_ID), SavedState(2)>>)>>,
     <<pickle_dump(<<SavedState(TICKER_ID)>>) \o << <<"dict">> >> >>}

\* pickle.load(fp) of a file that holds a tuple of objects: a PersistentState
\* for what pickle_dump wrote for one, an object of its own type otherwise.
pickle_load_objects(bytes) ==
    [i \in 1..Len(bytes) |->
        IF bytes[i][1] = "PersistentState" THEN pickle_load(<<bytes[i]>>)[1]
        ELSE Other]

\* A handler that lets every error but the missing file leave main.
except_missing_file_only(error) ==
    IF error = "FileNotFoundError" THEN "init" ELSE "raised"

\* The except clauses around restore_state: where main goes on after the
\* error has been logged.
except_restore(error) == "init"

\* main up to the restore: the checks of the options, the construction of the
\* crawler and, with --continue, restore_state on the state file.
main_start ==
    /\ main_pc = "start"
    /\ IF cli_args.continue_flag /\ ~ cli_args.state_file
       THEN /\ main_pc' = "returned_1"
            /\ UNCHANGED <<states, payload, restored>>
       ELSE IF ~ cli_args.continue_flag
       THEN /\ main_pc' = "init"
            /\ UNCHANGED <<states, payload, restored>>
       ELSE IF file = <<>>
       THEN /\ restored' = "FileNotFoundError"
            /\ main_pc' = except_restore("FileNotFoundError")
            /\ UNCHANGED <<states, payload>>
       ELSE LET loaded == pickle_load_objects(file[1])
                error == restore_check(states, loaded)
            IN  /\ payload' = loaded
                /\ restored' = error
                /\ states' = restore_states(states, loaded)
                /\ main_pc' = IF error = "ok" THEN "init"
                              ELSE except_restore(error)
    /\ UNCHANGED <<pc, idx, attempt, cookies, update_threads, tasks, session,
                   pre, result, retired_fetch, active_fetch, updated>>
    /\ UNCHANGED <<ticker_ids, file, call, clock, world>>
    /\ UNCHANGED <<cli_args, next_update, first_update, iterations, saves, repo>>

\* The repository is cloned, if one is given, and the loop is entered:
\* next_update = dt.datetime.utcnow().
main_schedule ==
    /\ main_pc = "init"
    /\ main_pc' = "wait"
    /\ next_update' = clock
    /\ first_update' = clock
    /\ UNCHANGED <<crawler, restore, call, clock, world>>
    /\ UNCHANGED <<cli_args, iterations, saves, repo>>

\* wait_until(target) returns when utcnow() < target is false.
wait_until(target, utcnow) == utcnow >= target

\* await wait_until(next_update) returns and gadse.update() is called: the
\* cycle of the first state starts.
main_update ==
    /\ main_pc = "wait"
    /\ wait_until(next_update, clock)
    /\ iterations < MaxIterations
    /\ pc = "idle"
    /\ Len(states) > 0
    /\ main_pc' = "update"
    /\ idx' = 1
    /\ attempt' = 1
    /\ pc' = "cookies"
    /\ pre' = states[1]
    /\ update_threads' = <<>>
    /\ tasks' = <<>>
    /\ updated' = {}
    /\ UNCHANGED <<states, session, result, clock, world>>
    /\ UNCHANGED <<cookies, retired_fetch, active_fetch, restore, call>>
    /\ UNCHANGED <<cli_args, next_update, first_update, iterations, saves, repo>>

\* A handler of UpdateError that goes on to save the state.
main_except_save ==
    /\ main_pc = "update"
    /\ pc = "idle"
    /\ result # "ok"
    /\ file' = <<pickle_dump(states)>>
    /\ saves' = saves + 1
    /\ main_pc' = "sleep"
    /\ UNCHANGED <<crawler, ticker_ids, payload, restored, call, clock, world>>
    /\ UNCHANGED <<cli_args, next_update, first_update, iterations, repo>>

\* update() has raised UpdateError: the error is logged and main sleeps.
main_except ==
    /\ main_pc = "update"
    /\ pc = "idle"
    /\ result # "ok"
    /\ main_pc' = "sleep"
    /\ UNCHANGED <<crawler, restore, call, clock, world>>
    /\ UNCHANGED <<cli_args, next_update, first_update, iterations, saves, repo>>

\* asyncio.sleep(30) returns: continue.
main_continue ==
    /\ main_pc = "sleep"
    /\ main_pc' = "wait"
    /\ UNCHANGED <<crawler, restore, call, clock, world>>
    /\ UNCHANGED <<cli_args, next_update, first_update, iterations, saves, repo>>

\* update() has returned: the state is saved, if a state file is given.
main_save ==
    /\ main_pc = "update"
    /\ pc = "idle"
    /\ result = "ok"
    /\ iterations' = iterations + 1
    /\ IF cli_args.state_file
       THEN file' = <<pickle_dump(states)>> /\ saves' = saves + 1
       ELSE UNCHANGED <<file, saves>>
    /\ main_pc' = IF cli_args.git_repo THEN "commit" ELSE "next"
    /\ UNCHANGED <<crawler, ticker_ids, payload, restored, call, clock, world>>
    /\ UNCHANGED <<cli_args, next_update, first_update, repo>>

\* The structure commit_ranking dumps to ranking.json: the date and one entry
\* of name and postings for every key of the ranking.
ranking_json(sts) ==
    [date |-> last_update_of(sts),
     users |-> {<<u.name, ranking_of(sts)[u]>> : u \in DOMAIN ranking_of(sts)}]

\* commit_ranking: ranking.json is written, added and committed.
commit_ranking ==
    /\ main_pc = "commit"
    /\ repo' = [repo EXCEPT !.head = <<ranking_json(states)>>,
                            !.commits = @ + 1]
    /\ main_pc' = IF cli_args.git_no_push THEN "next" ELSE "push"
    /\ UNCHANGED <<crawler, restore, call, clock, world>>
    /\ UNCHANGED <<cli_args, next_update, first_update, iterations, saves>>

\* git.push(repopath)
git_push ==
    /\ main_pc = "push"
    /\ repo' = [repo EXCEPT !.pushed = repo.commits]
    /\ main_pc' = "next"
    /\ UNCHANGED <<crawler, restore, call, clock, world>>
    /\ UNCHANGED <<cli_args, next_update, first_update, iterations, saves>>

\* The scheduled time set to the current time.
advance_to_now(scheduled, utcnow, interval) == utcnow

\* while next_update < utcnow(): next_update += interval
RECURSIVE advance(_, _, _)
advance(scheduled, utcnow, interval) ==
    IF scheduled < utcnow THEN advance(scheduled + interval, utcnow, interval)
    ELSE scheduled

\* An end of the iteration that does not read --once.
main_next_ignores_once ==
    /\ main_pc = "next"
    /\ main_pc' = "wait"
    /\ next_update' = advance(next_update, clock, cli_args.interval)
    /\ UNCHANGED <<crawler, restore, call, clock, world>>
    /\ UNCHANGED <<cli_args, first_update, iterations, saves, repo>>

\* The end of an iteration: with --once the loop is left and main returns 0,
\* otherwise the scheduled time is advanced.
main_next ==
    /\ main_pc = "next"
    /\ IF cli_args.once
       THEN main_pc' = "returned_0" /\ UNCHANGED next_update
       ELSE /\ main_pc' = "wait"
            /\ next_update' = advance(next_update, clock, cli_args.interval)
    /\ UNCHANGED <<crawler, restore, call, clock, world>>
    /\ UNCHANGED <<cli_args, first_update, iterations, saves, repo>>

InitMain ==
    /\ Constructed(<<TICKER_ID>>)
    /\ args = <<>>
    /\ main_pc = "start"
    /\ cli_args \in Invocations
    /\ file \in IF cli_args.continue_flag /\ cli_args.state_file
                THEN StateFiles ELSE {<<>>}
    /\ next_update = 0
    /\ first_update = 0
    /\ iterations = 0
    /\ saves = 0
    /\ repo = NoRepo

NextMain ==
    \/ main_start
    \/ main_schedule
    \/ main_update
    \/ main_except
    \/ main_continue
    \/ main_save
    \/ commit_ranking
    \/ git_push
    \/ main_next
    \/ Tick
    \/ update_cookies_ok
    \/ update_cookies_fail
    \/ get_ticker_threads_ok
    \/ get_ticker_threads_fail
    \/ listing_retry
    \/ \E i \in 1..Len(tasks) : get_postings_ok(i)
    \/ \E i \in 1..Len(tasks) : get_postings_fail(i)
    \/ \E i \in 1..Len(tasks) : get_postings_retry(i)
    \/ gather_raise
    \/ gather_return

\* main() of crawler_cli started with one of the command lines, while the
\* clock runs and the site holds what it held when main started.
SpecMain == InitMain /\ [][NextMain]_vars

\* main() under the scheduling of the event loop: a step of main that can be
\* taken (the sleep, the git commands and wait_until return, the code between
\* two awaits runs) is taken.  Whether a request of update() returns or
\* raises is left to the site.
SpecMainLive ==
    /\ InitMain
    /\ [][NextMain]_vars
    /\ WF_vars(main_update)
    /\ WF_vars(main_except)
    /\ WF_vars(main_continue)
    /\ WF_vars(main_save)
    /\ WF_vars(commit_ranking)
    /\ WF_vars(git_push)
    /\ WF_vars(main_next)

(***************************************************************************)
(* The single-ticker crawler of __main__.py.                               *)
(***************************************************************************)
\* TickerGadse(window) of __main__.py: _retired_postcount and
\* _retired_threads, with what the last update() call took and gave: the
\* candidates, the postings of each, the active accumulator and the returned
\* mapping (<<>> while no call has returned one).
SingleTicker ==
    [retired_postcount |-> EmptyDict, retired_threads |-> {},
     update_threads |-> <<>>, postings |-> <<>>, active |-> <<>>,
     returned |-> <<>>, calls |-> 0]

\* The else branch of the loop: active = join_dicts(self._retired_postcount,
\* stats, op=operator.add).
single_ticker_active(active, retired_postcount, stats) ==
    join_dicts(retired_postcount, stats, Add)

\* for t, p in zip(update_threads, postings): ... of __main__.py, from
\* position i on, on the crawler g with the accumulator active.
RECURSIVE single_ticker_classify(_, _, _, _, _, _)
single_ticker_classify(g, active, upd, postings, i, now) ==
    IF i > Len(upd) \/ i > Len(postings)
    THEN [g EXCEPT !.active = <<active>>,
                   !.returned = <<join_dicts(g.retired_postcount, active, Add)>>]
    ELSE LET stats == posting_stats(postings[i])
         IN IF upd[i].published < now - Window
            THEN single_ticker_classify(
                    [g EXCEPT !.retired_threads = @ \cup {upd[i]},
                              !.retired_postcount = join_dicts(@, stats, Add)],
                    active, upd, postings, i + 1, now)
            ELSE single_ticker_classify(
                    g, single_ticker_active(active, g.retired_postcount, stats),
                    upd, postings, i + 1, now)

\* The postings the threads of the ticker can hold: for each thread up to
\* three by UserA followed by up to one by UserB.
SingleTickerWorlds ==
    {<<Posts(1, a1, b1), Posts(2, a2, b2)>> :
        a1 \in 0..3, b1 \in 0..1, a2 \in 0..3, b2 \in 0..1}

\* TickerGadse(window=window) in main of __main__.py.
single_ticker_init ==
    /\ Len(args) = 2
    /\ out = <<>>
    /\ out' = <<SingleTicker>>
    /\ args' = args
    /\ UNCHANGED <<crawler, restore, clock, world, main>>

\* update() of __main__.py is called and returns the mapping: the listing and
\* every request succeed.
single_ticker_update ==
    /\ Len(args) = 2
    /\ out # <<>>
    /\ out[1].calls < MaxIterations
    /\ \E upd \in SortedByPublished(
                    {Thread(tid, "t") :
                        tid \in {x \in 1..2 : PublishedAt(x) <= clock}}
                       \ out[1].retired_threads) :
          LET postings == [i \in 1..Len(upd) |-> args[upd[i].thread_id]]
              g == [out[1] EXCEPT !.update_threads = upd,
                                  !.postings = postings, !.calls = @ + 1]
          IN out' = <<single_ticker_classify(g, EmptyDict, upd, postings, 1,
                                             clock)>>
    /\ args' = args
    /\ UNCHANGED <<crawler, restore, clock, world, main>>

\* update() of __main__.py is called and the listing fails in every attempt
\* (it returns None) or a request gives up (ConnectionError).
single_ticker_update_fails ==
    /\ Len(args) = 2
    /\ out # <<>>
    /\ out[1].calls < MaxIterations
    /\ out' = <<[out[1] EXCEPT !.update_threads = <<>>, !.postings = <<>>,
                               !.active = <<>>, !.returned = <<>>,
                               !.calls = @ + 1]>>
    /\ args' = args
    /\ UNCHANGED <<crawler, restore, clock, world, main>>

\* The clock of the single-ticker crawler runs.
single_ticker_tick ==
    /\ Len(args) = 2
    /\ clock < MaxTime
    /\ clock' = clock + 1
    /\ UNCHANGED <<crawler, restore, call, world, main>>

InitSingleTicker == Constructed(<<>>) /\ NoMain /\ args \in SingleTickerWorlds

NextSingleTicker ==
    \/ single_ticker_init
    \/ single_ticker_tick
    \/ single_ticker_update
    \/ single_ticker_update_fails

\* The crawler of __main__.py on a ticker of two threads, updated while the
\* clock runs.
SpecSingleTicker == InitSingleTicker /\ [][NextSingleTicker]_vars

(***************************************************************************)
(* get_thread_postings of api.py: the paging of one thread.                *)
(***************************************************************************)
\* An element of page["p"], reduced to the keys pid, cid and cn.
RawPosting(pid, cid, cn) == [pid |-> pid, cid |-> cid, cn |-> cn]
RawPostings ==
    {RawPosting(pid, u.user_id, u.name) : pid \in 1..2, u \in {UserA, UserB}}

\* page["p"] of the responses of the site: no, one or two postings.
Pages ==
    {<<>>} \cup {<<p>> : p \in RawPostings}
           \cup {<<p, q>> : p \in RawPostings, q \in RawPostings}

\* What the site answers to the requests for one thread, in the order of the
\* requests; a request after the last scripted page gets an empty page.
PageScripts == UNION {[1..n -> Pages] : n \in 0..MaxPages}
response(script, k) == IF k <= Len(script) THEN script[k] ELSE <<>>

\* The request of _get_thread_postings_page: skipToPostingId is in the URL
\* when skip_to is given and is not 0.
page_request(skip_to) ==
    IF skip_to # <<>> /\ skip_to[1] # 0 THEN skip_to ELSE <<>>

\* {p["pid"]: p for p in postings}: the dict in insertion order, as the
\* tuple of its values, after the postings have been put into d.
RECURSIVE dict_by_pid(_, _)
dict_by_pid(d, postings) ==
    IF postings = <<>> THEN d
    ELSE LET p == Head(postings)
             K == {k \in 1..Len(d) : d[k].pid = p.pid}
         IN dict_by_pid(IF K = {} THEN Append(d, p)
                        ELSE [d EXCEPT ![CHOOSE k \in K : TRUE] = p],
                        Tail(postings))

\* The list of the fetched postings as it is.
values_all(postings) == postings

\* list({p["pid"]: p for p in postings}.values())
values_by_pid(postings) == dict_by_pid(<<>>, postings)

\* The Posting objects built from the raw postings of thread_id.
to_postings(raw, thread_id) ==
    [i \in 1..Len(raw) |->
        Posting(raw[i].pid, User(raw[i].cid, raw[i].cn), thread_id)]

\* get_thread_postings is called: the first page is requested, without
\* skip_to, and arrives.
get_thread_postings_first ==
    /\ out = <<>>
    /\ out' = <<[st |-> "paging", postings |-> <<>>,
                 requests |-> <<page_request(<<>>)>>,
                 page |-> response(args, 1), result |-> <<>>]>>
    /\ args' = args
    /\ UNCHANGED <<crawler, restore, clock, world, main>>

\* The body of `while page["p"]`: the page is appended and the next page is
\* requested from the last pid of this one, and arrives.
get_thread_postings_next ==
    /\ out # <<>>
    /\ out[1].st = "paging"
    /\ out[1].page # <<>>
    /\ LET g == out[1]
           skip_to == g.page[Len(g.page)].pid
       IN out' = <<[g EXCEPT !.postings = g.postings \o g.page,
                             !.requests = Append(@, page_request(<<skip_to>>)),
                             !.page = response(args, Len(g.requests) + 1)]>>
    /\ args' = args
    /\ UNCHANGED <<crawler, restore, clock, world, main>>

\* The request for the next page raises: the exception leaves
\* get_thread_postings.
get_thread_postings_raises ==
    /\ out # <<>>
    /\ out[1].st = "paging"
    /\ out[1].page # <<>>
    /\ out' = <<[out[1] EXCEPT !.st = "raised"]>>
    /\ args' = args
    /\ UNCHANGED <<crawler, restore, clock, world, main>>

\* The page is empty: the duplicates are removed and the list of Posting
\* objects is returned.
get_thread_postings_return ==
    /\ out # <<>>
    /\ out[1].st = "paging"
    /\ out[1].page = <<>>
    /\ out' = <<[out[1] EXCEPT
                    !.st = "returned",
                    !.result = to_postings(values_by_pid(out[1].postings), 1)]>>
    /\ args' = args
    /\ UNCHANGED <<crawler, restore, clock, world, main>>

InitPages == Constructed(<<>>) /\ NoMain /\ args \in PageScripts

NextPages ==
    \/ get_thread_postings_first
    \/ get_thread_postings_next
    \/ get_thread_postings_raises
    \/ get_thread_postings_return

\* One call of get_thread_postings for thread 1 against a scripted site.
SpecPages == InitPages /\ [][NextPages]_vars

TypeOK ==
    /\ pc \in {"idle", "cookies", "listing", "sleep", "gather", "stopped",
              "restored"}
    /\ updated \subseteq 1..Len(states)
    /\ Len(file) \in {0, 1}
    /\ clock \in 0..MaxTime
    /\ session \in {"none", "open", "closed"}
    /\ cookies \in {"none", "ok", "raised"}
    /\ attempt \in 0..Retries
    /\ result \in {"none", "ok", "listing_failed", "posting_failed"}
    /\ restored \in {"none", "ok", "TypeError", "ValueError",
                    "FileNotFoundError"}
    /\ main_pc \in {"off", "start", "init", "wait", "update", "sleep",
                   "commit", "push", "next", "returned_0", "returned_1"}
    /\ iterations \in 0..MaxIterations

\* Number of postings by author u in a posting list.
CountBy(postings, u) ==
    Cardinality({i \in 1..Len(postings) : postings[i].user = u})

\* Sum of the values of a function with a finite domain.
RECURSIVE SumFn(_)
SumFn(f) ==
    IF DOMAIN f = {} THEN 0
    ELSE LET x == CHOOSE x \in DOMAIN f : TRUE
         IN f[x] + SumFn([y \in DOMAIN f \ {x} |-> f[y]])

\* Postings by u in the fetched lists of the batch positions in P.
BatchCount(P, u) == SumFn([i \in P |-> CountBy(tasks[i].res, u)])

\* Two Thread values that denote the same thread.
SameThread(a, b) == a.ticker_id = b.ticker_id /\ a.thread_id = b.thread_id

\* The step in which the gather of the running cycle is left.
GatherLeft == pc = "gather" /\ pc' # "gather"

\* The step that ends the running cycle successfully.
CycleSucceeds == GatherLeft /\ result' = "ok"

\* C1: when a posting fetch of the batch has failed on all its attempts, the
\* cycle ends with UpdateError and the state of the ticker is what it was
\* when the cycle started (retired_threads, retired_postcount,
\* active_postcount and last_update), whatever the other requests fetched.
C1_FailedFetchLeavesState ==
    [][(GatherLeft /\ \E i \in 1..Len(tasks) : tasks[i].st = "failed")
          => /\ result' = "posting_failed"
             /\ pc' = "idle"
             /\ states'[idx].retired_threads = pre.retired_threads
             /\ states'[idx].retired_postcount = pre.retired_postcount
             /\ states'[idx].active_postcount = pre.active_postcount
             /\ states'[idx].last_update = pre.last_update
             /\ states'[idx] = pre]_vars

\* A cycle has failed on one thread while another thread of the batch was
\* fetched, on a ticker that had been updated before.
C1_Witness ==
    /\ pc = "idle"
    /\ result = "posting_failed"
    /\ pre.active_postcount # EmptyDict
    /\ \E i, j \in 1..Len(tasks) :
          /\ tasks[i].st = "failed"
          /\ tasks[j].st = "done"
          /\ tasks[j].res # <<>>

\* C2: when every attempt of the credential and listing phase has failed, the
\* cycle ends with UpdateError, no posting request has been issued and the
\* state of the ticker is what it was when the cycle started.
C2_FailedListingLeavesState ==
    [][(pc = "sleep" /\ attempt >= Retries /\ pc' # "sleep")
          => /\ result' = "listing_failed"
             /\ pc' = "idle"
             /\ tasks' = <<>>
             /\ states'[idx] = pre
             /\ states' = states]_vars

\* The listing phase has failed on a ticker that holds retired threads and
\* counts.
C2_Witness ==
    /\ pc = "idle"
    /\ result = "listing_failed"
    /\ states[idx].retired_threads # {}
    /\ states[idx].retired_postcount # EmptyDict

\* C3: no posting request of a cycle is for a thread (ticker_id, thread_id)
\* that is in retired_threads, whatever the other attributes of the listed
\* thread are.
C3_RetiredNeverFetchedAgain ==
    pc = "gather" =>
        \A i \in 1..Len(update_threads) :
            ~ \E r \in states[idx].retired_threads :
                  SameThread(r, update_threads[i])

\* C4: no step of any cycle, successful or failed, removes or changes a
\* member of retired_threads of any ticker.
C4_RetiredThreadsOnlyGrow ==
    [][/\ Len(states') = Len(states)
       /\ \A k \in 1..Len(states) :
             states[k].retired_threads \subseteq states'[k].retired_threads]_vars

\* A cycle has failed on a ticker that holds two retired threads.
C4_Witness ==
    /\ pc = "idle"
    /\ result \in {"listing_failed", "posting_failed"}
    /\ Cardinality(states[idx].retired_threads) >= 2

\* The threads (ticker_id, thread_id) of a set of Thread values.
Identities(S) == {<<t.ticker_id, t.thread_id>> : t \in S}

\* C5: after a successful cycle the ranking of the ticker counts, for every
\* author, the postings fetched in this cycle for the threads classified
\* active plus, once for every retired thread, the postings fetched for it
\* in the cycle that retired it.
C5_RankingCountsEachPostingOnce ==
    [][CycleSucceeds =>
         LET st == states'[idx]
             active == {j \in 1..Len(update_threads) :
                          update_threads[j] \notin st.retired_threads}
             fetchOf(id) ==
                 retired_fetch'[CHOOSE t \in st.retired_threads :
                                   <<t.ticker_id, t.thread_id>> = id]
         IN \A u \in Users :
               Get(ranking_of(<<st>>), u) =
                  BatchCount(active, u)
                  + SumFn([id \in Identities(st.retired_threads) |->
                              CountBy(fetchOf(id), u)])]_vars

\* C6: after a successful cycle active_postcount is the per-author count of
\* the postings fetched in this cycle for the threads published at or after
\* now - window, and holds nothing else.
C6_ActiveRecomputed ==
    [][CycleSucceeds =>
         LET inside == {j \in 1..Len(update_threads) :
                          update_threads[j].published >= clock - Window}
         IN /\ \A u \in Users :
                  Get(states'[idx].active_postcount, u) = BatchCount(inside, u)
            /\ DOMAIN states'[idx].active_postcount =
                  {u \in Users : BatchCount(inside, u) > 0}]_vars

\* A cycle has succeeded whose batch held two active threads.
C6_Witness ==
    /\ result = "ok"
    /\ states[1].retired_postcount = EmptyDict
    /\ Get(states[1].active_postcount, UserA) = 5
    /\ Get(states[1].active_postcount, UserB) >= 1

\* C7: in a successful cycle exactly the candidate threads published strictly
\* before now - window are added to retired_threads and have their counts
\* added to retired_postcount; the others are counted in active_postcount
\* and are not retired.
C7_RetiredIffBeforeCutoff ==
    [][CycleSucceeds =>
         LET all == 1..Len(update_threads)
             before == {j \in all : update_threads[j].published < clock - Window}
         IN /\ states'[idx].retired_threads =
                  states[idx].retired_threads
                     \cup {update_threads[j] : j \in before}
            /\ \A j \in all \ before :
                  update_threads[j] \notin states'[idx].retired_threads
            /\ \A u \in Users :
                  /\ Get(states'[idx].retired_postcount, u) =
                        Get(states[idx].retired_postcount, u)
                           + BatchCount(before, u)
                  /\ Get(states'[idx].active_postcount, u) =
                        BatchCount(all \ before, u)]_vars

\* The scenario: window of one day, a thread published two days ago with 3
\* postings by A and a thread published within the window with 2 postings by
\* A and 1 by B.
C7_Witness ==
    /\ result = "ok"
    /\ states[1].retired_threads = {Thread(1, "t")}
    /\ states[1].retired_postcount = [u \in {UserA} |-> 3]
    /\ states[1].active_postcount =
          [u \in {UserA, UserB} |-> IF u = UserA THEN 2 ELSE 1]
    /\ ranking_of(states) =
          [u \in {UserA, UserB} |-> IF u = UserA THEN 5 ELSE 1]

\* The loaded tuple holds states only, one for each of its ticker ids.
WellFormed(loaded) ==
    /\ \A i \in 1..Len(loaded) : IsPersistentState(loaded[i])
    /\ \A i, j \in 1..Len(loaded) :
          loaded[i].ticker_id = loaded[j].ticker_id => i = j

\* C8: after restore_state the ticker ids of the tracked states are the
\* sequence passed to the constructor, whatever ids the snapshot holds and
\* in whatever order.
C8_TrackedIdsKept ==
    (restored # "none" /\ WellFormed(payload)) =>
        [i \in 1..Len(states) |-> states[i].ticker_id] = ticker_ids

\* C9: after restore_state every tracked state whose ticker id is in the
\* snapshot equals the state of the snapshot for that id.
C9_CommonIdsRestored ==
    (restored # "none" /\ WellFormed(payload)) =>
        \A i \in 1..Len(states), j \in 1..Len(payload) :
            states[i].ticker_id = payload[j].ticker_id => states[i] = payload[j]

\* C10: restore_state with a snapshot that lacks a tracked id succeeds, and
\* the states of the tracked ids it lacks are still the fresh states.
C10_AbsentIdsStayFresh ==
    LET ids == {payload[j].ticker_id : j \in 1..Len(payload)}
        absent == {i \in 1..Len(states) : states[i].ticker_id \notin ids}
    IN (restored # "none" /\ payload # <<>> /\ WellFormed(payload)
           /\ absent # {}) =>
          /\ restored = "ok"
          /\ \A i \in absent :
                /\ states[i] = PersistentState(states[i].ticker_id)
                /\ \A j \in 1..Len(payload) : payload[j] # states[i]

\* The states a newly constructed crawler holds for its ticker_ids.
FreshStates == [i \in 1..Len(ticker_ids) |-> PersistentState(ticker_ids[i])]

\* C11: when the tuple restore_state loads has an element that is not a
\* PersistentState, the call raises and the crawler holds exactly the states
\* it held before the call (those of its construction); none of the loaded
\* elements is installed.
C11_RejectedPayloadLeavesStates ==
    (/\ restored # "none"
     /\ \E i \in 1..Len(payload) : ~ IsPersistentState(payload[i]))
        => /\ restored \in {"TypeError", "ValueError"}
           /\ states = FreshStates
           /\ \A i \in 1..Len(states) : \A j \in 1..Len(payload) :
                 states[i] # payload[j]

\* A rejected tuple that holds saved states of tracked tickers next to an
\* element of another type.
C11_Witness ==
    /\ restored = "TypeError"
    /\ \E i, j \in 1..Len(payload) :
          /\ ~ IsPersistentState(payload[i])
          /\ IsPersistentState(payload[j])
          /\ \E k \in 1..Len(ticker_ids) : payload[j].ticker_id = ticker_ids[k]
    /\ states = FreshStates

\* C12: a crawler constructed for the same ticker IDs that restores the file
\* save_state wrote holds, for every ticker, a state equal in all five fields
\* to the one that was saved, whatever update cycles ran before the save.
C12_SaveRestoreRoundTrip ==
    [][(pc = "stopped" /\ pc' = "restored")
          => /\ restored' = "ok"
             /\ Len(states') = Len(states)
             /\ \A i \in 1..Len(states) : \E j \in 1..Len(states') :
                   /\ states'[j].ticker_id = states[i].ticker_id
                   /\ states'[j].retired_postcount = states[i].retired_postcount
                   /\ states'[j].active_postcount = states[i].active_postcount
                   /\ states'[j].retired_threads = states[i].retired_threads
                   /\ states'[j].last_update = states[i].last_update]_vars

\* A restored state with retired threads and with counts of both kinds.
C12_Witness ==
    /\ pc = "restored"
    /\ restored = "ok"
    /\ \E i \in 1..Len(states) :
          /\ states[i].retired_threads # {}
          /\ states[i].retired_postcount # EmptyDict
          /\ states[i].active_postcount # EmptyDict
          /\ states[i].last_update # Epoch
    /\ \A i \in 1..Len(states) : states[i].last_update # Epoch

\* The update() call that was running ends with an UpdateError of the cycle
\* of position idx.
UpdateRaises == pc # "idle" /\ pc' = "idle" /\ result' # "ok"

\* C13: when the cycle of one ticker fails with UpdateError, every other
\* tracked ticker, those after it in the tracked order included, has been
\* updated by the time the same update() call ends, and the ranking is taken
\* from the failed ticker's state of before the cycle and the updated states
\* of the others.
C13_FailureDoesNotStopOtherTickers ==
    [][UpdateRaises
          => /\ updated' = (1..Len(states)) \ {idx}
             /\ states'[idx] = pre
             /\ \A k \in updated' : states'[k].last_update # Epoch]_vars

\* The places where _update is suspended: the await of update_cookies, of
\* get_ticker_threads, of asyncio.sleep and of the gather.
Suspended == pc \in {"cookies", "listing", "sleep", "gather"}

\* C14: at every suspension point of a cycle the ticker's retired_threads,
\* retired_postcount and active_postcount, and so the ranking, are those of
\* before the cycle; the three are written in one step, which is taken after
\* the last request of the batch has completed and in which the cycle ends.
C14_NoPartialStateAtSuspension ==
    /\ [](Suspended
            => /\ states[idx].retired_threads = pre.retired_threads
               /\ states[idx].retired_postcount = pre.retired_postcount
               /\ states[idx].active_postcount = pre.active_postcount
               /\ ranking_of(states) = ranking_of([states EXCEPT ![idx] = pre]))
    /\ [][(\E k \in 1..Len(states) :
              \/ states'[k].retired_threads # states[k].retired_threads
              \/ states'[k].retired_postcount # states[k].retired_postcount
              \/ states'[k].active_postcount # states[k].active_postcount)
            => /\ CycleSucceeds
               /\ \A i \in 1..Len(tasks) : tasks[i].st = "done"]_vars

\* A cycle of a ticker that has been updated before is suspended in the
\* gather: one request has returned postings, another one sleeps before its
\* next attempt.
C14_Witness ==
    /\ pc = "gather"
    /\ pre.last_update # Epoch
    /\ pre.active_postcount # EmptyDict
    /\ \E i, j \in 1..Len(tasks) :
          /\ tasks[i].st = "done" /\ tasks[i].res # <<>>
          /\ tasks[j].st = "sleep"

\* C15: the session made for the requests of a cycle is closed when the cycle
\* ends, with the commit or with the UpdateError of a request; a session is
\* open only while the cycle that made it waits in the gather.
C15_SessionClosedAtCycleEnd ==
    /\ [][GatherLeft => session' = "closed"]_vars
    /\ [](session = "open" => pc = "gather")

\* An update() call has ended with the UpdateError of a request and the
\* session of the batch, which had answered another request, is closed.
C15_Witness ==
    /\ pc = "idle"
    /\ result = "posting_failed"
    /\ session = "closed"
    /\ \E i, j \in 1..Len(tasks) :
          tasks[i].st = "failed" /\ tasks[j].st = "done"

\* What the tracked states count for author u: retired plus active, 0 where
\* the author is absent.
CountedFor(u) ==
    SumFn([k \in 1..Len(states) |->
              Get(states[k].retired_postcount, u)
                + Get(states[k].active_postcount, u)])

\* C16: in every reachable state the ranking maps each author to the sum,
\* over all tracked states, of the author's retired and active counts, and
\* it holds an author exactly when some tracked state counts that author.
C16_RankingIsSumOverStates ==
    LET ranking == ranking_of(states)
    IN  /\ DOMAIN ranking \subseteq Users
        /\ \A u \in Users :
              /\ Get(ranking, u) = CountedFor(u)
              /\ u \in DOMAIN ranking
                    <=> \E k \in 1..Len(states) :
                           \/ u \in DOMAIN states[k].retired_postcount
                           \/ u \in DOMAIN states[k].active_postcount

\* Both tickers have been updated; author A is counted as retired and as
\* active by the first and the second ticker counts other authors.
C16_Witness ==
    /\ Len(states) = 2
    /\ UserA \in DOMAIN states[1].retired_postcount
    /\ UserA \in DOMAIN states[1].active_postcount
    /\ UserB \in DOMAIN states[1].active_postcount
    /\ DOMAIN states[2].active_postcount = {UserB2, UserD}
    /\ Get(ranking_of(states), UserA) = 5

\* C17: join_dicts(a, b, op) returns a mapping whose keys are the keys of a
\* and of b; a key of both maps to op of the two values, a key of one to that
\* one's value; a and b are as they were.  So {a:1, b:2} joined with
\* {b:3, c:4} under addition is {a:1, b:5, c:4}.
C17_JoinDictsMerges ==
    /\ [][args' = args]_vars
    /\ [](Len(args) = 2 /\ out # <<>>
            => LET a == args[1]
                   b == args[2]
                   r == out[1]
               IN  /\ DOMAIN r = DOMAIN a \cup DOMAIN b
                   /\ \A k \in DOMAIN a \cap DOMAIN b : r[k] = a[k] + b[k]
                   /\ \A k \in DOMAIN a \ DOMAIN b : r[k] = a[k]
                   /\ \A k \in DOMAIN b \ DOMAIN a : r[k] = b[k]
                   /\ (a = [k \in {"a", "b"} |-> IF k = "a" THEN 1 ELSE 2]
                         /\ b = [k \in {"b", "c"} |-> IF k = "b" THEN 3 ELSE 4])
                        => r = [k \in {"a", "b", "c"} |->
                                  CASE k = "a" -> 1 [] k = "b" -> 5
                                    [] OTHER -> 4])

\* The call of the example has returned.
C17_Witness ==
    /\ Len(args) = 2
    /\ args[1] = [k \in {"a", "b"} |-> IF k = "a" THEN 1 ELSE 2]
    /\ args[2] = [k \in {"b", "c"} |-> IF k = "b" THEN 3 ELSE 4]
    /\ out # <<>>
    /\ out[1]["b"] = 5

\* C18: with addition the merge is associative and commutative, so the fold
\* of the ranking gives the same mapping in whatever order the dicts of the
\* states are folded.
C18_JoinAssociativeCommutative ==
    (Len(args) = 3 /\ out # <<>>)
        => /\ out[1] = out[2]
           /\ out[3] = out[4]
           /\ Cardinality(out[5]) = 1

\* Three dicts that share a key and have keys of their own, with different
\* values, have been merged.
C18_Witness ==
    /\ Len(args) = 3
    /\ out # <<>>
    /\ DOMAIN args[1] = {"a"}
    /\ DOMAIN args[2] = {"a", "b"}
    /\ DOMAIN args[3] = {"b"}
    /\ args[1]["a"] # args[2]["a"]
    /\ args[2]["b"] # args[3]["b"]
    /\ out[1] # args[2]

\* C19: postings whose authors have the same numeric identifier and different
\* captured names are counted under one key: the ranking never holds two
\* entries with the same author identifier.
C19_OneRankingKeyPerAuthorId ==
    \A u, v \in DOMAIN ranking_of(states) : u.user_id = v.user_id => u = v

\* C20: authors who share a display name and differ in the numeric identifier
\* are distinct keys: a successful cycle counts for each of them that
\* author's postings of the batch and no posting of the namesake, and both
\* are keys of the ticker's counts when both have postings in the batch.
C20_NamesakesAreDistinctKeys ==
    [][CycleSucceeds =>
         \A u, v \in Users :
            (u.name = v.name /\ u.user_id # v.user_id)
               => LET all == 1..Len(tasks)
                      old == states[idx]
                      new == states'[idx]
                      keys == DOMAIN new.retired_postcount
                                \cup DOMAIN new.active_postcount
                  IN  /\ Get(new.retired_postcount, u)
                           - Get(old.retired_postcount, u)
                           + Get(new.active_postcount, u) = BatchCount(all, u)
                      /\ (BatchCount(all, u) > 0 /\ BatchCount(all, v) > 0)
                            => {u, v} \subseteq keys]_vars

\* The ranking holds two authors named "deleted", each with the one posting
\* that author wrote.
C20_Witness ==
    /\ result = "ok"
    /\ UserB2.name = UserD.name
    /\ {UserB2, UserD} \subseteq DOMAIN ranking_of(states)
    /\ ranking_of(states)[UserB2] = 1
    /\ ranking_of(states)[UserD] = 1

\* The cycle that is in its gather repeats the last successful cycle of the
\* ticker: the listing is the same, so the candidates are the threads that
\* cycle left active; every request has returned the postings that cycle
\* fetched for the thread; and no candidate is before the cutoff.
RepeatsLastCycle ==
    /\ pc = "gather"
    /\ states[idx].last_update # Epoch
    /\ {update_threads[i] : i \in 1..Len(update_threads)} =
          {t \in DOMAIN active_fetch : t.ticker_id = states[idx].ticker_id}
    /\ \A i \in 1..Len(tasks) :
          /\ tasks[i].st = "done"
          /\ tasks[i].res = active_fetch[update_threads[i]]
    /\ \A i \in 1..Len(update_threads) :
          update_threads[i].published >= clock - Window

\* C21: a successful cycle that follows a successful cycle of the same ticker
\* with the same listing, the same postings and no thread that has crossed
\* the cutoff leaves retired_threads and retired_postcount as the first left
\* them and computes the active_postcount the first computed.
C21_RepeatedCycleIsIdempotent ==
    [][(RepeatsLastCycle /\ CycleSucceeds)
          => /\ states'[idx].retired_threads = states[idx].retired_threads
             /\ states'[idx].retired_postcount = states[idx].retired_postcount
             /\ states'[idx].active_postcount = states[idx].active_postcount]_vars

\* The second of two such cycles is about to commit, on a ticker for which
\* the first has retired a thread and has left another one active.
C21_Witness ==
    /\ RepeatsLastCycle
    /\ Len(update_threads) >= 1
    /\ states[idx].retired_threads # {}
    /\ states[idx].retired_postcount # EmptyDict
    /\ states[idx].active_postcount # EmptyDict

\* C22: update() takes the tracked tickers in the order of ticker_ids; the
\* cycle of a ticker starts only when the cycle of the ticker before it has
\* ended, so that while a cycle runs exactly the positions before it have been
\* updated in the call and no other cycle, of another or of the same ticker,
\* is running.
C22_TickersInOrderOneAtATime ==
    [][/\ (pc = "idle" /\ pc' # "idle") => idx' = 1
       /\ idx' # idx
            => \/ pc = "idle" /\ idx' = 1
               \/ /\ idx' = idx + 1
                  /\ CycleSucceeds
                  /\ \A i \in 1..Len(tasks) : tasks[i].st = "done"
                  /\ tasks' = <<>>
       /\ Suspended'
            => /\ updated' = 1..(idx' - 1)
               /\ states'[idx'].ticker_id = ticker_ids[idx']
               /\ pc' = "gather"
                     => \A i \in 1..Len(update_threads') :
                           update_threads'[i].ticker_id = ticker_ids[idx']]_vars

\* The cycle of the second ticker is in its gather after the cycle of the
\* first has ended.
C22_Witness ==
    /\ pc = "gather"
    /\ idx = 2
    /\ updated = {1}
    /\ states[1].last_update # Epoch
    /\ \E i \in 1..Len(tasks) : tasks[i].st = "sleep"

\* C23: the last_update accessor gives the greatest last_update of the
\* tracked states; the last_update of a ticker changes only in the step in
\* which a cycle of that ticker succeeds, and a cycle that fails leaves it at
\* the time of the last successful cycle, or at the epoch.
C23_LastUpdateIsMaxAndOnlySuccessWrites ==
    /\ [](/\ \A k \in 1..Len(states) :
               last_update_of(states) >= states[k].last_update
          /\ \E k \in 1..Len(states) :
               last_update_of(states) = states[k].last_update)
    /\ [][/\ \A k \in 1..Len(states) :
               states'[k].last_update # states[k].last_update
                  => CycleSucceeds /\ k = idx
          /\ UpdateRaises
               => /\ states'[idx].last_update = pre.last_update
                  /\ (idx \notin updated' /\ pre.last_update # Epoch)
                        => pre.last_update <= clock]_vars

\* The first ticker has been updated later than the second, whose last cycle
\* failed, and the second has been updated before.
C23_Witness ==
    /\ pc = "idle"
    /\ result # "ok"
    /\ idx = 2
    /\ states[2].last_update # Epoch
    /\ states[1].last_update > states[2].last_update
    /\ last_update_of(states) = states[1].last_update

\* The cycle is in its credential and listing phase.
ListingPhase == pc \in {"cookies", "listing", "sleep"}

\* C24: the credential and listing phase of a cycle makes at most Retries
\* attempts; an exception of update_cookies or of get_ticker_threads ends the
\* attempt as failed, and get_ticker_threads is not called in an attempt whose
\* update_cookies has raised; the first attempt in which both return ends the
\* phase without an error; no request for postings exists unless an attempt
\* has succeeded.
C24_ListingPhaseAttempts ==
    /\ [](/\ ListingPhase => attempt \in 1..Retries /\ tasks = <<>>
          /\ pc = "listing" => cookies = "ok"
          /\ cookies = "raised" => pc = "sleep")
    /\ [][/\ (ListingPhase /\ ListingPhase' /\ idx' = idx /\ attempt' # attempt)
               => pc = "sleep" /\ pc' = "cookies" /\ attempt' = attempt + 1
          /\ (pc = "cookies" /\ pc' # "cookies")
               => /\ pc' \in {"listing", "sleep"}
                  /\ attempt' = attempt
                  /\ (pc' = "sleep") = (cookies' = "raised")
          /\ (pc = "listing" /\ pc' # "listing")
               => /\ pc' \in {"gather", "sleep"}
                  /\ attempt' = attempt
                  /\ pc' = "gather" => result' = result /\ states' = states
          /\ (ListingPhase /\ pc' = "idle")
               => pc = "sleep" /\ attempt = Retries /\ result' = "listing_failed"
          /\ (pc # "gather" /\ pc' = "gather")
               => pc = "listing"
          /\ (tasks' # tasks /\ tasks' # <<>>) => pc' = "gather"]_vars

\* The phase has succeeded in its last attempt, after an attempt in which
\* update_cookies or get_ticker_threads had raised.
C24_Witness ==
    /\ pc = "gather"
    /\ attempt = Retries
    /\ Retries > 1
    /\ tasks # <<>>
    /\ \A i \in 1..Len(tasks) : tasks[i].st = "run" /\ tasks[i].att = 1

\* C25: every request of a batch has its own attempt budget: it makes at most
\* Retries attempts and gives up only after Retries attempts of its own; a
\* step of one request leaves the other requests as they are; a request that
\* has returned postings makes no further attempt in the cycle; and the cycle
\* ends with UpdateError exactly when some request has given up.
C25_OwnAttemptBudgetPerThread ==
    /\ [](pc = "gather"
            => \A i \in 1..Len(tasks) :
                  /\ tasks[i].att \in 0..Retries
                  /\ tasks[i].st \in {"run", "sleep"} => tasks[i].att >= 1
                  /\ tasks[i].st = "failed" => tasks[i].att = Retries)
    /\ [][(pc = "gather" /\ pc' = "gather")
            => \A i \in 1..Len(tasks) :
                  /\ tasks'[i] # tasks[i]
                       => \A j \in 1..Len(tasks) : j # i => tasks'[j] = tasks[j]
                  /\ tasks'[i].att > tasks[i].att
                       => /\ tasks[i].st = "sleep"
                          /\ tasks'[i].att = tasks[i].att + 1
                  /\ (tasks'[i].st = "failed" /\ tasks[i].st # "failed")
                       => tasks[i].st = "sleep" /\ tasks[i].att = Retries
                  /\ tasks[i].st \in {"done", "failed"} => tasks'[i] = tasks[i]]_vars
    /\ [][GatherLeft
            => ((result' = "posting_failed")
                   <=> \E i \in 1..Len(tasks) : tasks[i].st = "failed")]_vars

\* One request has given up after its Retries attempts while another request
\* of the batch makes its own last attempt.
C25_Witness ==
    /\ pc = "gather"
    /\ Retries > 1
    /\ \E i, j \in 1..Len(tasks) :
          /\ tasks[i].st = "failed"
          /\ tasks[j].st = "run"
          /\ tasks[j].att = Retries

\* C26: in every state reached from the empty state, the retired_postcount of
\* a ticker gives every author the sum, over the threads in retired_threads,
\* of the author's postings in the fetch of the cycle that retired the
\* thread; every retired thread (ticker_id, thread_id) has been folded in
\* once, in one cycle.
C26_RetiredCountsFoldedOnce ==
    \A k \in 1..Len(states) :
       LET R == states[k].retired_threads
       IN  /\ \A t \in R : t \in DOMAIN retired_fetch
           /\ \A r, t \in R : SameThread(r, t) => r = t
           /\ \A u \in Users :
                 Get(states[k].retired_postcount, u) =
                    SumFn([id \in Identities(R) |->
                              CountBy(retired_fetch[CHOOSE t \in R :
                                         <<t.ticker_id, t.thread_id>> = id], u)])

\* C27: a cycle changes the state of its own ticker only: the states of the
\* other tickers, the number and the order of the tracked states and the
\* ticker_id of every state are as before, whether the cycle succeeds or
\* fails.
C27_CycleChangesOnlyItsTicker ==
    [][/\ Len(states') = Len(states)
       /\ \A k \in 1..Len(states) :
             /\ states'[k].ticker_id = states[k].ticker_id
             /\ states'[k].ticker_id = ticker_ids[k]
             /\ states'[k] # states[k] => Suspended /\ k = idx
       /\ (GatherLeft \/ UpdateRaises)
             => \A k \in 1..Len(states) : k # idx => states'[k] = states[k]]_vars

\* The cycle of the second ticker has succeeded while the state of the first
\* holds a retired thread and counts.
C27_Witness ==
    /\ pc = "idle"
    /\ result = "ok"
    /\ idx = 2
    /\ states[1].retired_threads # {}
    /\ states[1].retired_postcount # EmptyDict
    /\ states[2].retired_threads = {}
    /\ states[2].active_postcount # EmptyDict

\* Postings by u among the fetched lists of the batch that belong to a thread
\* with an identifier in T.
CountInThreads(T, u) ==
    SumFn([i \in 1..Len(tasks) |->
              Cardinality({j \in 1..Len(tasks[i].res) :
                              /\ tasks[i].res[j].user = u
                              /\ tasks[i].res[j].thread_id \in T})])

\* C28: in whatever order the requests of a batch complete and however many
\* attempts each needs, every thread is classified and counted with the
\* postings fetched for that thread: the list of every request holds postings
\* of its own thread only, the postings of the threads before the cutoff are
\* what is added to retired_postcount and the postings of the other threads
\* are what active_postcount counts.
C28_ThreadCountedWithOwnPostings ==
    [][CycleSucceeds =>
         LET before == {update_threads[i].thread_id :
                          i \in {j \in 1..Len(update_threads) :
                                   update_threads[j].published < clock - Window}}
             after == {update_threads[i].thread_id :
                          i \in {j \in 1..Len(update_threads) :
                                   update_threads[j].published >= clock - Window}}
         IN  /\ \A i \in 1..Len(tasks) : \A j \in 1..Len(tasks[i].res) :
                   tasks[i].res[j].thread_id = update_threads[i].thread_id
             /\ \A u \in Users :
                   /\ Get(states'[idx].retired_postcount, u)
                        - Get(states[idx].retired_postcount, u)
                           = CountInThreads(before, u)
                   /\ Get(states'[idx].active_postcount, u)
                           = CountInThreads(after, u)]_vars

\* The request of the second thread of a batch has returned while the
\* request of the first, a thread before the cutoff, makes its last attempt.
C28_Witness ==
    /\ pc = "gather"
    /\ Retries > 1
    /\ Len(tasks) = 2
    /\ tasks[2].st = "done"
    /\ tasks[2].res # <<>>
    /\ tasks[1].st = "run"
    /\ tasks[1].att = Retries
    /\ update_threads[1].published < clock - Window
    /\ update_threads[2].published >= clock - Window

\* C29: when update() has raised the UpdateError of a request that has given
\* up, and the session of the batch is closed, no request of that batch is
\* waiting for a response or sleeping before a further attempt.
C29_NoRequestOutlivesFailedCycle ==
    (pc = "idle" /\ result = "posting_failed" /\ session = "closed")
        => \A i \in 1..Len(tasks) : tasks[i].st \in {"done", "failed"}

\* C30: after a successful cycle the last_update of the ticker is the instant
\* now from which the cycle computed the cutoff now - window: the cycle reads
\* the clock once.
C30_LastUpdateIsCutoffInstant ==
    [][CycleSucceeds
          => /\ states'[idx].last_update = clock
             /\ \A i \in 1..Len(update_threads) :
                   (update_threads[i] \in states'[idx].retired_threads)
                      <=> update_threads[i].published
                             < states'[idx].last_update - Window]_vars

\* C31: while the listing only gains threads and the posting list of every
\* thread only gains postings, no step of any cycle, successful or failed,
\* lowers the count of an author in the ranking; this includes the cycle in
\* which a thread moves from active to retired.
C31_RankingNeverDecreases ==
    [][states' # states
          => LET before == ranking_of(states)
                 after == ranking_of(states')
             IN  \A u \in Users :
                    /\ Get(after, u) >= Get(before, u)
                    /\ u \in DOMAIN before => u \in DOMAIN after]_vars

\* The cycle is about to retire a thread that the last successful cycle of the
\* ticker had left active, with postings counted for it.
C31_Witness ==
    /\ pc = "gather"
    /\ \A i \in 1..Len(tasks) : tasks[i].st = "done"
    /\ \E i \in 1..Len(update_threads) :
          /\ update_threads[i] \in DOMAIN active_fetch
          /\ active_fetch[update_threads[i]] # <<>>
          /\ outside_window(update_threads[i], clock)
    /\ states[idx].active_postcount # EmptyDict

\* update() has ended in the iteration of the main loop that runs.
UpdateEnded == main_pc = "update" /\ pc = "idle"

\* C32: the main loop writes the state file, commits the ranking and pushes
\* only after the update() of the same iteration has returned without
\* UpdateError, and what it writes is the state and the ranking that update
\* left; after an update() that raised UpdateError it writes no state file
\* and commits nothing, sleeps, and starts a new cycle with the scheduled
\* time it had.
C32_PublishOnlyAfterSuccessfulUpdate ==
    /\ [][/\ (file' # file \/ saves' # saves)
               => /\ UpdateEnded
                  /\ result = "ok"
                  /\ updated = 1..Len(states)
                  /\ file' = <<pickle_dump(states)>>
          /\ repo' # repo
               => /\ main_pc \in {"commit", "push"}
                  /\ result = "ok"
                  /\ updated = 1..Len(states)
                  /\ repo'.head = <<ranking_json(states)>>
          /\ (UpdateEnded /\ result # "ok" /\ main_pc' # main_pc)
               => /\ main_pc' = "sleep"
                  /\ UNCHANGED <<file, saves, repo, next_update, states>>
          /\ (main_pc = "sleep" /\ main_pc' # main_pc)
               => /\ main_pc' = "wait"
                  /\ UNCHANGED <<file, saves, repo, next_update, states>>
          /\ (main_pc = "wait" /\ main_pc' = "update")
               => pc' = "cookies" /\ idx' = 1 /\ attempt' = 1]_vars
    /\ [](main_pc \in {"commit", "push", "next"}
            => /\ result = "ok"
               /\ pc = "idle"
               /\ cli_args.state_file => file = <<pickle_dump(states)>>)
    /\ [](main_pc = "sleep"
            => result \in {"listing_failed", "posting_failed"} /\ pc = "idle")

\* After an iteration that has saved the state and committed the ranking, the
\* update() of the next iteration has raised and main has slept: it waits for
\* the scheduled time again, and the file and the repository are as the
\* first iteration left them.
C32_Witness ==
    /\ main_pc = "wait"
    /\ result \in {"listing_failed", "posting_failed"}
    /\ iterations = 1
    /\ saves = 1
    /\ repo.commits = 1
    /\ file = <<pickle_dump(states)>>
    /\ repo.head = <<ranking_json(states)>>
    /\ states[1].last_update # Epoch

\* main has returned.
Returned == main_pc \in {"returned_0", "returned_1"}

\* C33: with --once the main loop is left after the first update() that
\* returns, with the state saved at most once and the ranking committed at
\* most once; main does not return after an update() that raised but sleeps
\* and calls update() again, so that the loop ends once an update() returns.
C33_OnceEndsAfterFirstSuccess ==
    /\ [](cli_args.once
            => /\ iterations <= 1
               /\ saves <= 1
               /\ repo.commits <= 1
               /\ repo.pushed <= 1
               /\ (main_pc = "wait" \/ Suspended) => iterations = 0)
    /\ [](main_pc = "returned_0"
            => /\ cli_args.once
               /\ iterations = 1
               /\ result = "ok"
               /\ saves = (IF cli_args.state_file THEN 1 ELSE 0)
               /\ repo.commits = (IF cli_args.git_repo THEN 1 ELSE 0))
    /\ [][(Returned' /\ ~ Returned)
            => \/ main_pc = "next" /\ result = "ok"
               \/ main_pc = "start"]_vars
    /\ ((main_pc = "sleep") ~> (main_pc = "update"))
    /\ ((cli_args.once /\ UpdateEnded /\ result = "ok")
           ~> (main_pc = "returned_0"))

\* main has returned 0 with --once: the state is saved and the ranking is
\* committed and pushed, once each.
C33_Witness ==
    /\ main_pc = "returned_0"
    /\ cli_args.once
    /\ saves = 1
    /\ repo.commits = 1
    /\ repo.pushed = 1
    /\ file = <<pickle_dump(states)>>

\* C34: when the main loop has advanced the schedule after a successful
\* cycle, next_update is not earlier than the current time; next_update
\* always differs from the scheduled time the loop started with by a whole
\* multiple of the interval; and update() is called only when the current
\* time has reached next_update.
C34_ScheduleOnIntervalGrid ==
    /\ [](main_pc \in {"wait", "update", "sleep", "commit", "push", "next"}
            => /\ next_update >= first_update
               /\ (next_update - first_update) % cli_args.interval = 0)
    /\ [][(main_pc = "next" /\ main_pc' = "wait")
            => /\ next_update' >= clock'
               /\ next_update' >= next_update
               /\ next_update' > next_update => next_update < clock
               /\ next_update' - cli_args.interval < clock
                     \/ next_update' = next_update]_vars
    /\ [][(main_pc # "update" /\ main_pc' = "update")
            => clock >= next_update /\ clock' >= next_update']_vars
    /\ [][next_update' # next_update
            => main_pc \in {"init", "next"}]_vars

\* A loop with an interval of two time units waits for its second cycle: the
\* first cycle ended one unit after the scheduled time, the schedule was
\* advanced by one interval and is one unit ahead of the clock.
C34_Witness ==
    /\ main_pc = "wait"
    /\ pc = "idle"
    /\ cli_args.interval = 2
    /\ iterations = 1
    /\ clock = first_update + 1
    /\ next_update = first_update + 2

\* restore_state was called, or the state file could not be opened, and the
\* state was not restored.
RestoreFailed == restored \in {"FileNotFoundError", "TypeError", "ValueError"}

SingleTickerCount(P, u) == SumFn([i \in P |-> CountBy(out[1].postings[i], u)])

\* C36: in the single-ticker crawler of __main__.py, when update() returns,
\* the active accumulator holds for every author the postings of the
\* candidates classified active in this call, summed over all of them, and
\* nothing of _retired_postcount; the returned mapping counts every posting
\* of every retired and of every active thread once.
C36_SingleTickerActiveIsFresh ==
    (Len(args) = 2 /\ out # <<>> /\ out[1].returned # <<>>) =>
        LET g == out[1]
            active == {i \in 1..Len(g.update_threads) :
                          g.update_threads[i] \notin g.retired_threads}
            counted == {t.thread_id : t \in g.retired_threads}
                          \cup {g.update_threads[i].thread_id : i \in active}
        IN \A u \in Users :
              /\ Get(g.active[1], u) = SingleTickerCount(active, u)
              /\ Get(g.returned[1], u) =
                    SumFn([tid \in counted |-> CountBy(args[tid], u)])

\* The pages of the script before its first empty page.
RECURSIVE FetchedPages(_, _)
FetchedPages(script, k) ==
    IF response(script, k) = <<>> THEN 0 ELSE 1 + FetchedPages(script, k + 1)

\* The postings of the first n pages of the script.
FetchedPostings(script, n) ==
    UNION {{script[k][j] : j \in 1..Len(script[k])} : k \in 1..n}

C38_NoSleepAfterLastAttempt ==
    /\ pc = "sleep" => attempt < Retries
    /\ pc = "gather"
          => \A i \in 1..Len(tasks) :
                tasks[i].st = "sleep" => tasks[i].att < Retries

=============================================================================
